---- MODULE Spec2Model ----
(***************************************************************************)
(* Model of the chat client of services/chat-frontend: the ChatInterface   *)
(* component (component state, socket event handlers, sendMessage and the  *)
(* UI elements that call it), the routes of App that mount and unmount it, *)
(* the grouping of the quick-query catalog, the SystemStatus component     *)
(* with its periodic refresh, and the scripts fix-chat.sh and start.sh.    *)
(*                                                                         *)
(* One step of the model is one handler run to completion on the event     *)
(* loop.  Strings are sequences of one-character strings, so that trim()   *)
(* and template concatenation are computed and not assumed.  An optional   *)
(* (possibly undefined) field is a sequence of length 0 or 1.              *)
(***************************************************************************)
EXTENDS Integers, Sequences, FiniteSets, TLC

\* ------------------------------------------------------------------ bounds
\* Longest Message Log the model builds.
MaxLog == 3
\* Largest value Date.now() takes (the clock starts at 0).
MaxClock == 1
\* Most calls of sendMessage made while the channel is connected.
MaxSubmits == 3
\* Most ChatInterface instances mounted in one run of the application.
MaxMounts == 2
\* Longest list GET /quick-queries returns to the grouping.
MaxQueries == 3
\* Most GET /status requests one SystemStatus instance starts.
MaxFetches == 3
\* Most command-line arguments given to start.sh.
MaxArgs == 2

\* ----------------------------------------------------------------- strings
WhiteSpace == {" ", "\n"}

RECURSIVE TrimStart(_)
TrimStart(s) ==
  IF s = <<>> THEN <<>>
  ELSE IF Head(s) \in WhiteSpace THEN TrimStart(Tail(s)) ELSE s

RECURSIVE TrimEnd(_)
TrimEnd(s) ==
  IF s = <<>> THEN <<>>
  ELSE IF s[Len(s)] \in WhiteSpace THEN TrimEnd(SubSeq(s, 1, Len(s) - 1)) ELSE s

\* String.prototype.trim
Trim(s) == TrimEnd(TrimStart(s))

\* !message.trim(): the empty string is the only falsy string.
IsBlank(s) == Trim(s) = <<>>

\* The literal part of the template `Error: ${data.error}`.
ErrorPrefix == <<"E", "r", "r", "o", "r", ":", " ">>

\* ------------------------------------------------------------------ inputs
\* Texts the user can type into the TextField.
InputTexts == { <<>>, <<" ", "\n">>, <<"a">>, <<" ", "b">> }

\* Lists GET /quick-queries can return.
QuickQueryLists ==
  { <<>>,
    << [query |-> <<"a">>, category |-> "performance", description |-> "d1"],
       [query |-> <<" ">>, category |-> "performance", description |-> "d2"],
       [query |-> <<"c">>, category |-> "monitoring", description |-> "d3"] >> }

\* Payloads of the inbound 'response' event.  metadata and suggestions are
\* optional: <<>> is undefined, <<v>> is the value v.
ResponsePayloads ==
  { [response |-> <<"o", "k">>, timestamp |-> 0, metadata |-> <<>>, suggestions |-> <<>>],
    [response |-> <<"u", "p">>, timestamp |-> 1,
     metadata |-> << [metrics |-> 3] >>,
     suggestions |-> << << <<"a">>, <<"\n">> >> >>] }

\* Payloads of the inbound 'error' event.
ErrorPayloads ==
  { [error |-> <<"t", "o">>, timestamp |-> 1] }

\* ------------------------------------------------------------------- state
VARIABLES
  messages,       \* useState([]): the Message Log
  inputMessage,   \* useState(''): the text of the TextField
  isConnected,    \* useState(false)
  isLoading,      \* useState(false)
  quickQueries,   \* useState([]): the fetched catalog
  sessionId,      \* useState(() => `session_${Date.now()}`)
  emitted,        \* the 'message' events given to socket.emit, in order
  qqFetch,        \* the GET /quick-queries request: "pending", "done", "failed"; "none" while unmounted
  now,            \* the value Date.now() returns
  lastOp,         \* history: the handler that ran last, and its input
  arrivals,       \* history: [type, content] of every accepted submit, response and error, in handling order
  connTexts,      \* history: the non-blank texts given to sendMessage while connected, in order
  nConnSubmits,   \* history: number of calls of sendMessage made while connected
  view,           \* the element <Routes> renders: "chat", "dashboard" or "status"
  nMounts,        \* history: number of ChatInterface instances mounted so far
  nGets,          \* history: GET /quick-queries requests issued by the mounted instance
  nSockets,       \* history: io() calls made by the mounted instance
  lastConnEvent,  \* history: the last of connect/disconnect the instance handled, or "none"
  sentSessionIds, \* history: the session_id values of all 'message' events emitted by the client
  orphanFetches,  \* GET /quick-queries requests still pending whose instance was unmounted
  staleUpdate,    \* history: a state setter of an unmounted instance was called
  gList,          \* grouping: the fetched list given to quickQueries.reduce
  gIdx,           \* grouping: number of elements the reducer has consumed
  gAcc,           \* grouping: the accumulator object, own properties in insertion order
  gStatus,        \* grouping: "running", "done" or "threw"
  systemStatus,   \* SystemStatus useState(null): <<>> is null, <<d>> the fetched status d
  loading,        \* SystemStatus useState(true)
  error,          \* SystemStatus useState(null): <<>> is null, <<text>> the message
  ssMounted,      \* a SystemStatus instance is mounted
  intervalOn,     \* the timer of setInterval(fetchStatus, 30000) is set
  fetches,        \* the GET /status requests in start order: state "pending", "ok" or "failed", and the data
  nTicks,         \* history: number of times the interval timer fired
  ssCompleted,    \* history: the requests in the order they completed
  ssLastOp,       \* history: the SystemStatus step that ran last
  fcPc,           \* fix-chat.sh: the statement of main to run next, or "exited"
  fcFixes,        \* fix-chat.sh: number of fix functions called so far
  fcTrace,        \* fix-chat.sh history: the calls of test_api and of the fix functions, with their status
  fcExit,         \* fix-chat.sh: <<>> while running, else << [status, at] >> of its exit
  stPc,           \* start.sh: the statement of main to run next, or "exited"
  stArgs,         \* start.sh: the arguments parse_args has not consumed ("$@" after the shifts)
  MINIMAL_MODE,   \* start.sh: MINIMAL_MODE
  DEMO_MODE,      \* start.sh: DEMO_MODE
  SKIP_CHECKS,    \* start.sh: SKIP_CHECKS
  stTrap,         \* start.sh: cleanup is the EXIT trap
  attempt,        \* start.sh: local attempt of wait_for_services
  arithErrexit,   \* start.sh: the bash running it applies set -e to (( )) commands (4.1 and later do)
  stCompose,      \* start.sh history: the docker-compose commands run, in order
  stProbes,       \* start.sh history: probes of /health made by wait_for_services
  stReady,        \* start.sh history: a probe of wait_for_services succeeded
  stPrinted,      \* start.sh history: which of the help text and the not-ready warning were printed
  stSteps,        \* start.sh history: the statements of main completed, in order
  stCleanups,     \* start.sh history: number of runs of cleanup
  stExit          \* start.sh: <<>> while running, else << [status, during] >> of its exit

\* The state of one ChatInterface instance, its clock and its history.
chatVars == << messages, inputMessage, isConnected, isLoading, quickQueries, sessionId,
               emitted, qqFetch, now, lastOp, arrivals, connTexts, nConnSubmits >>

\* The application around the instance.
appVars == << view, nMounts, nGets, nSockets, lastConnEvent, sentSessionIds,
              orphanFetches, staleUpdate >>

\* The grouping of the catalog.
groupVars == << gList, gIdx, gAcc, gStatus >>

\* The SystemStatus instance.
statusVars == << systemStatus, loading, error, ssMounted, intervalOn, fetches,
                nTicks, ssCompleted, ssLastOp >>

\* One run of fix-chat.sh.
fixVars == << fcPc, fcFixes, fcTrace, fcExit >>

\* One run of start.sh.
startVars == << stPc, stArgs, MINIMAL_MODE, DEMO_MODE, SKIP_CHECKS, stTrap, attempt,
               arithErrexit, stCompose, stProbes, stReady, stPrinted, stSteps,
               stCleanups, stExit >>

vars == << chatVars, appVars, groupVars, statusVars, fixVars, startVars >>

\* A value of lastOp: the handler, its text argument, its payload (optional).
Op(op, text, data) == [op |-> op, text |-> text, data |-> data]

\* A ChatInterface instance right after its mount, in the application.
InstanceInit ==
  /\ messages = <<>>
  /\ inputMessage = <<>>
  /\ isConnected = FALSE
  /\ isLoading = FALSE
  /\ quickQueries = <<>>
  /\ now = 0
  /\ sessionId = <<"session_", now>>
  /\ emitted = <<>>
  /\ qqFetch = "pending"
  /\ lastOp = Op("mount", <<>>, <<>>)
  /\ arrivals = <<>>
  /\ connTexts = <<>>
  /\ nConnSubmits = 0
  /\ view = "chat"
  /\ nMounts = 1
  /\ nGets = 1
  /\ nSockets = 1
  /\ lastConnEvent = "none"
  /\ sentSessionIds = {}
  /\ orphanFetches = 0
  /\ staleUpdate = FALSE

\* No SystemStatus instance is mounted.
StatusIdle ==
  /\ systemStatus = <<>>
  /\ loading = FALSE
  /\ error = <<>>
  /\ ssMounted = FALSE
  /\ intervalOn = FALSE
  /\ fetches = <<>>
  /\ nTicks = 0
  /\ ssCompleted = <<>>
  /\ ssLastOp = [op |-> "none", id |-> 0]

\* fix-chat.sh is not running.
FixIdle ==
  /\ fcPc = "not started"
  /\ fcFixes = 0
  /\ fcTrace = <<>>
  /\ fcExit = <<>>

\* start.sh is not running.
StartIdle ==
  /\ stPc = "not started"
  /\ stArgs = <<>>
  /\ MINIMAL_MODE = FALSE
  /\ DEMO_MODE = FALSE
  /\ SKIP_CHECKS = FALSE
  /\ stTrap = FALSE
  /\ attempt = 0
  /\ arithErrexit = TRUE
  /\ stCompose = <<>>
  /\ stProbes = 0
  /\ stReady = FALSE
  /\ stPrinted = {}
  /\ stSteps = <<>>
  /\ stCleanups = 0
  /\ stExit = <<>>

\* The catalog is still empty: quickQueries.reduce over [] gives {}.
Init ==
  /\ InstanceInit
  /\ StatusIdle
  /\ FixIdle
  /\ StartIdle
  /\ gList = <<>>
  /\ gIdx = 0
  /\ gAcc = <<>>
  /\ gStatus = "done"

\* ---------------------------------------------------------------- messages
\* Faulty variant: the new message overwrites the last entry.
AppendMessage_ReplaceLast(prev, m) ==
  IF prev = <<>> THEN <<m>> ELSE [prev EXCEPT ![Len(prev)] = m]

\* Faulty variant: [m, ...prev]
AppendMessage_Prepend(prev, m) == <<m>> \o prev

\* setMessages(prev => [...prev, m])
AppendMessage(prev, m) == Append(prev, m)

\* Faulty variant: content: message.trim()
UserMessage_Trimmed(message) ==
  [id |-> now, type |-> "user", content |-> Trim(message), timestamp |-> now,
   metadata |-> <<>>, suggestions |-> <<>>]

\* The userMessage object of sendMessage.
UserMessage(message) ==
  [id |-> now, type |-> "user", content |-> message, timestamp |-> now,
   metadata |-> <<>>, suggestions |-> <<>>]

\* Faulty variant: the suggestions of the payload are not copied.
AssistantMessage_NoSuggestions(data) ==
  [id |-> now, type |-> "assistant", content |-> data.response,
   timestamp |-> data.timestamp, metadata |-> data.metadata,
   suggestions |-> <<>>]

\* The object the 'response' handler appends.
AssistantMessage(data) ==
  [id |-> now, type |-> "assistant", content |-> data.response,
   timestamp |-> data.timestamp, metadata |-> data.metadata,
   suggestions |-> data.suggestions]

\* Faulty variant: content: data.error
ErrorMessage_NoPrefix(data) ==
  [id |-> now, type |-> "error", content |-> data.error,
   timestamp |-> data.timestamp, metadata |-> <<>>, suggestions |-> <<>>]

\* The object the 'error' handler appends.
ErrorMessage(data) ==
  [id |-> now, type |-> "error", content |-> ErrorPrefix \o data.error,
   timestamp |-> data.timestamp, metadata |-> <<>>, suggestions |-> <<>>]

\* Faulty variant: message: message.trim()
MessageEvent_Trimmed(message) ==
  [message |-> Trim(message), session_id |-> sessionId, include_metrics |-> TRUE,
   include_logs |-> TRUE, include_traces |-> TRUE, time_range |-> "1h"]

\* The payload sendMessage gives to socket.emit('message', ...).
MessageEvent(message) ==
  [message |-> message, session_id |-> sessionId, include_metrics |-> TRUE,
   include_logs |-> TRUE, include_traces |-> TRUE, time_range |-> "1h"]

\* ----------------------------------------------------------- socket events
\* io(API_BASE_URL) passes no options: the socket keeps the library default
\* reconnection: true, and the component tells the user so ("Connection lost.
\* Attempting to reconnect...").
Reconnection == TRUE

\* socket.on('connect'): the first connection, or a reconnection of the socket.
OnConnect ==
  /\ ~isConnected
  /\ lastConnEvent = "none" \/ Reconnection
  /\ isConnected' = TRUE
  /\ lastOp' = Op("connect", <<>>, <<>>)
  /\ UNCHANGED << messages, inputMessage, isLoading, quickQueries, sessionId,
                  emitted, qqFetch, now, arrivals, connTexts, nConnSubmits >>

\* Faulty variant: the disconnect handler also calls setIsLoading(false).
OnDisconnect_ResetsLoading ==
  /\ isConnected
  /\ isConnected' = FALSE
  /\ isLoading' = FALSE
  /\ lastOp' = Op("disconnect", <<>>, <<>>)
  /\ UNCHANGED << messages, inputMessage, quickQueries, sessionId,
                  emitted, qqFetch, now, arrivals, connTexts, nConnSubmits >>

\* socket.on('disconnect')
OnDisconnect ==
  /\ isConnected
  /\ isConnected' = FALSE
  /\ lastOp' = Op("disconnect", <<>>, <<>>)
  /\ UNCHANGED << messages, inputMessage, isLoading, quickQueries, sessionId,
                  emitted, qqFetch, now, arrivals, connTexts, nConnSubmits >>

\* socket.on('response', data)
OnResponse(data) ==
  /\ isLoading' = FALSE
  /\ messages' = AppendMessage(messages, AssistantMessage(data))
  /\ lastOp' = Op("response", <<>>, <<data>>)
  /\ arrivals' = Append(arrivals, [type |-> "assistant", content |-> data.response])
  /\ UNCHANGED << inputMessage, isConnected, quickQueries, sessionId, emitted,
                  qqFetch, now, connTexts, nConnSubmits >>

\* Faulty variant: the error handler also calls setIsConnected(false).
OnError_SetsDisconnected(data) ==
  /\ isLoading' = FALSE
  /\ isConnected' = FALSE
  /\ messages' = AppendMessage(messages, ErrorMessage(data))
  /\ lastOp' = Op("error", <<>>, <<data>>)
  /\ arrivals' = Append(arrivals, [type |-> "error", content |-> ErrorPrefix \o data.error])
  /\ UNCHANGED << inputMessage, quickQueries, sessionId, emitted,
                  qqFetch, now, connTexts, nConnSubmits >>

\* socket.on('error', data)
OnError(data) ==
  /\ isLoading' = FALSE
  /\ messages' = AppendMessage(messages, ErrorMessage(data))
  /\ lastOp' = Op("error", <<>>, <<data>>)
  /\ arrivals' = Append(arrivals, [type |-> "error", content |-> ErrorPrefix \o data.error])
  /\ UNCHANGED << inputMessage, isConnected, quickQueries, sessionId, emitted,
                  qqFetch, now, connTexts, nConnSubmits >>

\* The socket delivers 'response' and 'error' packets only while it is
\* connected, one at a time.
Response == \E data \in ResponsePayloads :
  isConnected /\ Len(messages) < MaxLog /\ OnResponse(data)

Error == \E data \in ErrorPayloads :
  isConnected /\ Len(messages) < MaxLog /\ OnError(data)

\* The clock Date.now() reads moves on between handlers.
Tick ==
  /\ now < MaxClock
  /\ now' = now + 1
  /\ lastOp' = Op("tick", <<>>, <<>>)
  /\ UNCHANGED << messages, inputMessage, isConnected, isLoading, quickQueries,
                  sessionId, emitted, qqFetch, arrivals, connTexts, nConnSubmits >>

\* ------------------------------------------------------------- sendMessage
\* A text with at least one character that is not white space (the texts the
\* specification calls non-empty), stated without trim().
HasVisibleChar(s) == \E i \in 1..Len(s) : s[i] \notin WhiteSpace

\* Faulty variant: if (!message || !isConnected) return;
Rejected_NoTrim(message) == message = <<>> \/ ~isConnected

\* Faulty variant: if (!message.trim()) return;
Rejected_NoConnectionTest(message) == IsBlank(message)

\* Faulty variant: if (!message.trim() || !isConnected || isLoading) return;
Rejected_WhileLoading(message) == IsBlank(message) \/ ~isConnected \/ isLoading

\* if (!message.trim() || !isConnected) return;
Rejected(message) == IsBlank(message) \/ ~isConnected

\* Faulty variant: setInputMessage('') is called before the guard.
SendMessage_ClearsInputFirst(via, message) ==
  /\ lastOp' = Op(via, message, <<>>)
  /\ nConnSubmits' = IF isConnected THEN nConnSubmits + 1 ELSE nConnSubmits
  /\ connTexts' = IF isConnected /\ HasVisibleChar(message)
                  THEN Append(connTexts, message) ELSE connTexts
  /\ arrivals' = IF isConnected /\ HasVisibleChar(message)
                 THEN Append(arrivals, [type |-> "user", content |-> message])
                 ELSE arrivals
  /\ inputMessage' = <<>>
  /\ IF Rejected(message)
     THEN UNCHANGED << messages, isLoading, emitted >>
     ELSE /\ messages' = AppendMessage(messages, UserMessage(message))
          /\ isLoading' = TRUE
          /\ emitted' = Append(emitted, MessageEvent(message))
  /\ UNCHANGED << isConnected, quickQueries, sessionId, qqFetch, now >>

\* sendMessage(message), called by the UI element `via`.
SendMessage(via, message) ==
  /\ lastOp' = Op(via, message, <<>>)
  /\ nConnSubmits' = IF isConnected THEN nConnSubmits + 1 ELSE nConnSubmits
  /\ connTexts' = IF isConnected /\ HasVisibleChar(message)
                  THEN Append(connTexts, message) ELSE connTexts
  /\ arrivals' = IF isConnected /\ HasVisibleChar(message)
                 THEN Append(arrivals, [type |-> "user", content |-> message])
                 ELSE arrivals
  /\ IF Rejected(message)
     THEN UNCHANGED << messages, isLoading, emitted, inputMessage >>
     ELSE /\ messages' = AppendMessage(messages, UserMessage(message))
          /\ isLoading' = TRUE
          /\ emitted' = Append(emitted, MessageEvent(message))
          /\ inputMessage' = <<>>
  /\ UNCHANGED << isConnected, quickQueries, sessionId, qqFetch, now >>

\* The model stops calling sendMessage when its bounds are reached.
CanSubmit == Len(messages) < MaxLog /\ nConnSubmits < MaxSubmits

\* disabled={!isConnected || isLoading} of the TextField
TextFieldDisabled == ~isConnected \/ isLoading

\* disabled={!inputMessage.trim() || !isConnected || isLoading} of the send button
SendButtonDisabled == IsBlank(inputMessage) \/ ~isConnected \/ isLoading

\* onChange={(e) => setInputMessage(e.target.value)}
ChangeInput == \E t \in InputTexts :
  /\ ~TextFieldDisabled
  /\ inputMessage' = t
  /\ lastOp' = Op("input", t, <<>>)
  /\ UNCHANGED << messages, isConnected, isLoading, quickQueries, sessionId,
                  emitted, qqFetch, now, arrivals, connTexts, nConnSubmits >>

\* handleKeyPress with Enter and no Shift: sendMessage()
PressEnter ==
  /\ ~TextFieldDisabled
  /\ CanSubmit
  /\ SendMessage("enter", inputMessage)

\* onClick={() => sendMessage()} of the send button
ClickSend ==
  /\ ~SendButtonDisabled
  /\ CanSubmit
  /\ SendMessage("button", inputMessage)

\* Faulty variant: handleQuickQuery only puts the query into the text field.
HandleQuickQuery_FillsInput(via, query) ==
  /\ inputMessage' = query
  /\ lastOp' = Op(via, query, <<>>)
  /\ UNCHANGED << messages, isConnected, isLoading, quickQueries, sessionId,
                  emitted, qqFetch, now, arrivals, connTexts, nConnSubmits >>

\* handleQuickQuery(query)
HandleQuickQuery(via, query) == SendMessage(via, query)

\* What sendMessage() does when the text field holds `input` (the default
\* parameter message = inputMessage): the four values it can change.
SendMessageResult(input) ==
  IF Rejected(input)
  THEN [messages |-> messages, isLoading |-> isLoading, emitted |-> emitted,
        inputMessage |-> input]
  ELSE [messages |-> AppendMessage(messages, UserMessage(input)), isLoading |-> TRUE,
        emitted |-> Append(emitted, MessageEvent(input)), inputMessage |-> <<>>]

\* Manual entry of q: onChange puts q into the text field and Enter calls
\* sendMessage(); a disabled TextField takes neither.
ManualEntryResult(q) ==
  IF TextFieldDisabled
  THEN [messages |-> messages, isLoading |-> isLoading, emitted |-> emitted,
        inputMessage |-> inputMessage]
  ELSE SendMessageResult(q)

\* label={isConnected ? 'Connected' : 'Disconnected'} of the header Chip
ConnectionChipLabel == IF isConnected THEN "Connected" ELSE "Disconnected"

\* {!isConnected && (<Alert severity="warning">Connection lost. ...)}
ConnectionAlertShown == ~isConnected

\* onClick={() => handleQuickQuery(query.query)} of a quick-query Card
ClickCard == \E i \in DOMAIN quickQueries :
  /\ CanSubmit
  /\ HandleQuickQuery("card", quickQueries[i].query)

\* onClick={() => handleQuickQuery(suggestion)} of a suggestion Chip; chips are
\* rendered for message.suggestions && message.suggestions.length > 0
ClickChip == \E i \in DOMAIN messages :
  /\ messages[i].suggestions # <<>>
  /\ \E j \in DOMAIN messages[i].suggestions[1] :
       /\ CanSubmit
       /\ HandleQuickQuery("chip", messages[i].suggestions[1][j])

\* ------------------------------------------------------------ catalog load
\* loadQuickQueries: the GET succeeded with `data`.
LoadQuickQueriesOk == \E data \in QuickQueryLists :
  /\ qqFetch = "pending"
  /\ quickQueries' = data
  /\ qqFetch' = "done"
  /\ lastOp' = Op("loaded", <<>>, <<>>)
  /\ UNCHANGED << messages, inputMessage, isConnected, isLoading, sessionId,
                  emitted, now, arrivals, connTexts, nConnSubmits >>

\* Faulty variant: the catch block also calls setIsLoading(false).
LoadQuickQueriesFail_StopsLoading ==
  /\ qqFetch = "pending"
  /\ qqFetch' = "failed"
  /\ isLoading' = FALSE
  /\ lastOp' = Op("loadFailed", <<>>, <<>>)
  /\ UNCHANGED << messages, inputMessage, isConnected, quickQueries,
                  sessionId, emitted, now, arrivals, connTexts, nConnSubmits >>

\* loadQuickQueries: the GET failed; the catch block only logs.
LoadQuickQueriesFail ==
  /\ qqFetch = "pending"
  /\ qqFetch' = "failed"
  /\ lastOp' = Op("loadFailed", <<>>, <<>>)
  /\ UNCHANGED << messages, inputMessage, isConnected, isLoading, quickQueries,
                  sessionId, emitted, now, arrivals, connTexts, nConnSubmits >>

\* ----------------------------------------------------------------- effects
\* Faulty variant: }, [isConnected]);
SocketEffectDeps_Connection == <<isConnected>>

\* }, []); the dependency array of the socket effect
SocketEffectDeps == <<>>

\* Faulty variant: }, [isConnected]);
LoadEffectDeps_Connection == <<isConnected>>

\* }, []); the dependency array of the effect that calls loadQuickQueries
LoadEffectDeps == <<>>

\* What a handler of the mounted instance does to the application around it:
\* React re-runs an effect after a render in which its dependencies changed,
\* and the events given to socket.emit leave the client.
AfterHandler ==
  /\ nSockets' = IF SocketEffectDeps' # SocketEffectDeps THEN nSockets + 1 ELSE nSockets
  /\ nGets' = IF LoadEffectDeps' # LoadEffectDeps THEN nGets + 1 ELSE nGets
  /\ lastConnEvent' = IF lastOp'.op \in {"connect", "disconnect"}
                      THEN lastOp'.op ELSE lastConnEvent
  /\ sentSessionIds' = sentSessionIds \cup
       {emitted'[k].session_id : k \in (Len(emitted) + 1)..Len(emitted')}
  /\ UNCHANGED << view, nMounts, orphanFetches, staleUpdate, groupVars, statusVars, fixVars, startVars >>

\* A handler of the ChatInterface instance runs only while it is mounted.
Mounted(handler) == view = "chat" /\ handler /\ AfterHandler

\* ------------------------------------------------------------ specification
\* One ChatInterface instance, from its mount until it is torn down.
Next ==
  \/ Mounted(OnConnect)
  \/ Mounted(OnDisconnect)
  \/ Mounted(Response)
  \/ Mounted(Error)
  \/ Mounted(Tick)
  \/ Mounted(ChangeInput)
  \/ Mounted(PressEnter)
  \/ Mounted(ClickSend)
  \/ Mounted(ClickCard)
  \/ Mounted(ClickChip)
  \/ Mounted(LoadQuickQueriesOk)
  \/ Mounted(LoadQuickQueriesFail)

Spec == Init /\ [][Next]_vars

\* ------------------------------------------------------------- application
\* navItems of Navigation: the paths its buttons navigate to.
NavPaths == {"/chat", "/dashboard", "/status"}

\* <Routes>: the element rendered for a path.  "/" and "/chat" render the same
\* element type at the same place, so going from one to the other keeps the
\* mounted instance.
RouteElement(path) ==
  IF path \in {"/", "/chat"} THEN "chat"
  ELSE IF path = "/dashboard" THEN "dashboard"
  ELSE "status"

\* navigate(path) away from the chat view: ChatInterface is unmounted.  The
\* cleanup of the socket effect calls socket.disconnect(); the state of the
\* instance is discarded; nothing cancels the GET of loadQuickQueries.
LeaveChat == \E path \in NavPaths :
  /\ view = "chat"
  /\ RouteElement(path) # "chat"
  /\ view' = RouteElement(path)
  /\ orphanFetches' = IF qqFetch = "pending" THEN orphanFetches + 1 ELSE orphanFetches
  /\ messages' = <<>>
  /\ inputMessage' = <<>>
  /\ isConnected' = FALSE
  /\ isLoading' = FALSE
  /\ quickQueries' = <<>>
  /\ sessionId' = <<>>
  /\ emitted' = <<>>
  /\ qqFetch' = "none"
  /\ lastOp' = Op("unmount", <<>>, <<>>)
  /\ arrivals' = <<>>
  /\ connTexts' = <<>>
  /\ nConnSubmits' = 0
  /\ nGets' = 0
  /\ nSockets' = 0
  /\ lastConnEvent' = "none"
  /\ UNCHANGED << now, nMounts, sentSessionIds, staleUpdate, groupVars, statusVars, fixVars, startVars >>

\* navigate(path) to the chat view from another view: a new ChatInterface is
\* mounted, with the initial values of its useState calls and both effects run.
EnterChat ==
  /\ view # "chat"
  /\ nMounts < MaxMounts
  /\ view' = RouteElement("/chat")
  /\ nMounts' = nMounts + 1
  /\ messages' = <<>>
  /\ inputMessage' = <<>>
  /\ isConnected' = FALSE
  /\ isLoading' = FALSE
  /\ quickQueries' = <<>>
  /\ sessionId' = <<"session_", now>>
  /\ emitted' = <<>>
  /\ qqFetch' = "pending"
  /\ lastOp' = Op("mount", <<>>, <<>>)
  /\ arrivals' = <<>>
  /\ connTexts' = <<>>
  /\ nConnSubmits' = 0
  /\ nGets' = 1
  /\ nSockets' = 1
  /\ lastConnEvent' = "none"
  /\ UNCHANGED << now, sentSessionIds, orphanFetches, staleUpdate, groupVars, statusVars, fixVars, startVars >>

\* navigate(path) between the dashboard and the status view.
SwitchView == \E path \in NavPaths :
  /\ view # "chat"
  /\ RouteElement(path) \notin {"chat", view}
  /\ view' = RouteElement(path)
  /\ UNCHANGED << chatVars, nMounts, nGets, nSockets, lastConnEvent, sentSessionIds,
                  orphanFetches, staleUpdate, groupVars, statusVars, fixVars, startVars >>

\* The clock also moves on while no ChatInterface is mounted.
TickAway ==
  /\ view # "chat"
  /\ Tick
  /\ UNCHANGED << appVars, groupVars, statusVars, fixVars, startVars >>

\* The GET of an unmounted instance succeeds: loadQuickQueries goes on after its
\* await and calls setQuickQueries(response.data) of the unmounted instance.
OrphanLoadOk ==
  /\ orphanFetches > 0
  /\ orphanFetches' = orphanFetches - 1
  /\ staleUpdate' = TRUE
  /\ UNCHANGED << chatVars, view, nMounts, nGets, nSockets, lastConnEvent,
                  sentSessionIds, groupVars, statusVars, fixVars, startVars >>

\* The GET of an unmounted instance fails: the catch block only logs.
OrphanLoadFail ==
  /\ orphanFetches > 0
  /\ orphanFetches' = orphanFetches - 1
  /\ UNCHANGED << chatVars, view, nMounts, nGets, nSockets, lastConnEvent,
                  sentSessionIds, staleUpdate, groupVars, statusVars, fixVars, startVars >>

\* The application: ChatInterface instances mounted and unmounted by navigation.
NextApp ==
  \/ Next
  \/ LeaveChat
  \/ EnterChat
  \/ SwitchView
  \/ TickAway
  \/ OrphanLoadOk
  \/ OrphanLoadFail

SpecApp == Init /\ [][NextApp]_vars

TypeOK ==
  /\ isConnected \in BOOLEAN
  /\ isLoading \in BOOLEAN
  /\ inputMessage \in InputTexts
  /\ now \in 0..MaxClock
  /\ Len(messages) <= MaxLog
  /\ qqFetch \in {"pending", "done", "failed", "none"}
  /\ view \in {"chat", "dashboard", "status"}
  /\ nMounts \in 1..MaxMounts
  /\ orphanFetches \in 0..MaxMounts
  /\ staleUpdate \in BOOLEAN
  /\ lastConnEvent \in {"none", "connect", "disconnect"}

\* ------------------------------------------------------------ SystemStatus
\* Bodies GET /status can answer with.
StatusPayloads == { [status |-> "healthy"], [status |-> "degraded"] }

\* A value of ssLastOp.
StatusOp(op, id) == [op |-> op, id |-> id]

\* The requests that have not completed.
InFlight == {i \in DOMAIN fetches : fetches[i].state = "pending"}

\* fetchStatus up to its await: setLoading(true), then axios.get is called.
\* A state setter of an unmounted component changes nothing.
StartFetch ==
  /\ loading' = IF ssMounted THEN TRUE ELSE loading
  /\ fetches' = Append(fetches, [state |-> "pending", data |-> <<>>])
  /\ UNCHANGED << systemStatus, error >>

\* The timer of setInterval fires (every 30000 ms while it is set) and calls
\* fetchStatus, whether or not an earlier request is still pending.
IntervalFire ==
  /\ intervalOn
  /\ Len(fetches) < MaxFetches
  /\ nTicks' = nTicks + 1
  /\ StartFetch
  /\ ssLastOp' = StatusOp("tick", Len(fetches) + 1)
  /\ UNCHANGED << ssMounted, intervalOn, ssCompleted, chatVars, appVars, groupVars, fixVars, startVars >>

\* Faulty variant: the success branch does not call setError(null).
FetchStatusOk_KeepsError(i, data) ==
  /\ fetches[i].state = "pending"
  /\ fetches' = [fetches EXCEPT ![i] = [state |-> "ok", data |-> <<data>>]]
  /\ IF ssMounted
     THEN systemStatus' = <<data>> /\ loading' = FALSE /\ UNCHANGED error
     ELSE UNCHANGED << systemStatus, error, loading >>
  /\ ssCompleted' = Append(ssCompleted, i)
  /\ ssLastOp' = StatusOp("fetchOk", i)
  /\ UNCHANGED << ssMounted, intervalOn, nTicks, chatVars, appVars, groupVars, fixVars, startVars >>

\* fetchStatus after its await, the request having succeeded:
\* setSystemStatus(response.data); setError(null); finally setLoading(false).
FetchStatusOk(i, data) ==
  /\ fetches[i].state = "pending"
  /\ fetches' = [fetches EXCEPT ![i] = [state |-> "ok", data |-> <<data>>]]
  /\ IF ssMounted
     THEN systemStatus' = <<data>> /\ error' = <<>> /\ loading' = FALSE
     ELSE UNCHANGED << systemStatus, error, loading >>
  /\ ssCompleted' = Append(ssCompleted, i)
  /\ ssLastOp' = StatusOp("fetchOk", i)
  /\ UNCHANGED << ssMounted, intervalOn, nTicks, chatVars, appVars, groupVars, fixVars, startVars >>

\* fetchStatus after its await, the request having failed:
\* setError('Failed to fetch system status'); finally setLoading(false).
FetchStatusFail(i) ==
  /\ fetches[i].state = "pending"
  /\ fetches' = [fetches EXCEPT ![i] = [state |-> "failed", data |-> <<>>]]
  /\ IF ssMounted
     THEN error' = <<"Failed to fetch system status">> /\ loading' = FALSE
          /\ UNCHANGED systemStatus
     ELSE UNCHANGED << systemStatus, error, loading >>
  /\ ssCompleted' = Append(ssCompleted, i)
  /\ ssLastOp' = StatusOp("fetchFailed", i)
  /\ UNCHANGED << ssMounted, intervalOn, nTicks, chatVars, appVars, groupVars, fixVars, startVars >>

StatusOk == \E i \in DOMAIN fetches : \E data \in StatusPayloads : FetchStatusOk(i, data)

StatusFail == \E i \in DOMAIN fetches : FetchStatusFail(i)

\* Faulty variant: the effect returns no cleanup function.
EffectCleanup_None == intervalOn

\* return () => clearInterval(interval): the timer after the cleanup ran.
EffectCleanup == FALSE

\* The component is torn down: the cleanup of the effect runs and the state of
\* the instance is discarded.  Nothing cancels the pending requests.
UnmountStatus ==
  /\ ssMounted
  /\ ssMounted' = FALSE
  /\ intervalOn' = EffectCleanup
  /\ systemStatus' = <<>>
  /\ loading' = FALSE
  /\ error' = <<>>
  /\ ssLastOp' = StatusOp("unmount", 0)
  /\ UNCHANGED << fetches, nTicks, ssCompleted, chatVars, appVars, groupVars, fixVars, startVars >>

\* The render guards: if (loading) spinner; if (error) alert; else the table.
StatusView ==
  IF loading THEN "spinner"
  ELSE IF error # <<>> THEN "alert"
  ELSE "table"

\* A SystemStatus instance right after its mount: the useState initial values,
\* and the effect has called fetchStatus() once and set the interval timer.
InitStatus ==
  /\ InstanceInit
  /\ gList = <<>>
  /\ gIdx = 0
  /\ gAcc = <<>>
  /\ gStatus = "done"
  /\ FixIdle
  /\ StartIdle
  /\ systemStatus = <<>>
  /\ loading = TRUE
  /\ error = <<>>
  /\ ssMounted = TRUE
  /\ intervalOn = TRUE
  /\ fetches = << [state |-> "pending", data |-> <<>>] >>
  /\ nTicks = 0
  /\ ssCompleted = <<>>
  /\ ssLastOp = StatusOp("mount", 1)

NextStatus == IntervalFire \/ StatusOk \/ StatusFail \/ UnmountStatus

\* One SystemStatus instance, from its mount until after its teardown.
SpecStatus == InitStatus /\ [][NextStatus]_vars

\* ------------------------------------------------------------- fix-chat.sh
\* The statuses a failing docker-compose command ends with; under set -e the
\* script exits with the status of the failing command.
FailureStatuses == {1, 2}

\* The script ends with `status` at the statement `at`.
FixExit(status, at) ==
  /\ fcExit' = << [status |-> status, at |-> at] >>
  /\ fcPc' = "exited"

\* check_docker: exit 1 unless `docker info` succeeds.
CheckDocker == \E running \in BOOLEAN :
  /\ fcPc = "check_docker"
  /\ IF running
     THEN fcPc' = "check_compose_file" /\ UNCHANGED fcExit
     ELSE FixExit(1, "check_docker")
  /\ UNCHANGED << fcFixes, fcTrace, chatVars, appVars, groupVars, statusVars, startVars >>

\* check_compose_file: exit 1 unless docker-compose.yml is a file.
CheckComposeFile == \E found \in BOOLEAN :
  /\ fcPc = "check_compose_file"
  /\ IF found
     THEN fcPc' = "check_environment" /\ UNCHANGED fcExit
     ELSE FixExit(1, "check_compose_file")
  /\ UNCHANGED << fcFixes, fcTrace, chatVars, appVars, groupVars, statusVars, startVars >>

\* if ! check_environment; then ... exit 1; fi
CheckEnvironment == \E configured \in BOOLEAN :
  /\ fcPc = "check_environment"
  /\ IF configured
     THEN fcPc' = "fix_port_conflicts" /\ UNCHANGED fcExit
     ELSE FixExit(1, "check_environment")
  /\ UNCHANGED << fcFixes, fcTrace, chatVars, appVars, groupVars, statusVars, startVars >>

\* fix_port_conflicts is called as a plain command: its `return 1` on a
\* conflict ends the script under set -e.
FixPortConflicts == \E conflicts \in BOOLEAN :
  /\ fcPc = "fix_port_conflicts"
  /\ IF conflicts
     THEN FixExit(1, "fix_port_conflicts")
     ELSE fcPc' = "check_services" /\ UNCHANGED fcExit
  /\ UNCHANGED << fcFixes, fcTrace, chatVars, appVars, groupVars, statusVars, startVars >>

\* if ! check_services; then docker-compose up -d; sleep 10; fi
CheckServices == \E up \in BOOLEAN : \E status \in {0} \cup FailureStatuses :
  /\ fcPc = "check_services"
  /\ IF up \/ status = 0
     THEN fcPc' = "test_api" /\ UNCHANGED fcExit
     ELSE FixExit(status, "docker-compose up -d")
  /\ UNCHANGED << fcFixes, fcTrace, chatVars, appVars, groupVars, statusVars, startVars >>

\* test_api: the three probes in order; return 1 at the first that fails.
\* The result is the status and the number of probes made.
TestApiResult(chatApi, aiProcessor, frontend) ==
  IF ~chatApi THEN [status |-> 1, probes |-> 1]
  ELSE IF ~aiProcessor THEN [status |-> 1, probes |-> 2]
  ELSE IF ~frontend THEN [status |-> 1, probes |-> 3]
  ELSE [status |-> 0, probes |-> 3]

\* Faulty variant: the complete reset is tried first.
FixAfter_ResetFirst(n) ==
  IF n = 0 THEN "fix_complete_reset"
  ELSE IF n = 1 THEN "fix_rebuild_services"
  ELSE IF n = 2 THEN "fix_restart_services"
  ELSE "exit 1"

\* The nested ifs of main: what follows a failing test_api after n fixes.
FixAfter(n) ==
  IF n = 0 THEN "fix_restart_services"
  ELSE IF n = 1 THEN "fix_rebuild_services"
  ELSE IF n = 2 THEN "fix_complete_reset"
  ELSE "exit 1"

\* if ! test_api; then <next fix, or exit 1 after the third> fi
TestApi == \E chatApi, aiProcessor, frontend \in BOOLEAN :
  LET r == TestApiResult(chatApi, aiProcessor, frontend)
  IN /\ fcPc = "test_api"
     /\ fcTrace' = Append(fcTrace, [step |-> "test_api", status |-> r.status,
                                    probes |-> r.probes])
     /\ IF r.status = 0
        THEN fcPc' = "final" /\ UNCHANGED fcExit
        ELSE IF FixAfter(fcFixes) = "exit 1"
             THEN FixExit(1, "ladder")
             ELSE fcPc' = FixAfter(fcFixes) /\ UNCHANGED fcExit
     /\ UNCHANGED << fcFixes, chatVars, appVars, groupVars, statusVars, startVars >>

\* A fix function: its docker-compose commands run in order; the first that
\* fails ends the script (set -e); then sleep, and test_api is called again.
RunFix(name, status) ==
  /\ fcPc = name
  /\ fcFixes' = fcFixes + 1
  /\ fcTrace' = Append(fcTrace, [step |-> name, status |-> status, probes |-> 0])
  /\ IF status = 0
     THEN fcPc' = "test_api" /\ UNCHANGED fcExit
     ELSE FixExit(status, name)
  /\ UNCHANGED << chatVars, appVars, groupVars, statusVars, startVars >>

\* docker-compose restart chat-api ai-processor chat-frontend
FixRestartServices == \E status \in {0} \cup FailureStatuses :
  RunFix("fix_restart_services", status)

\* docker-compose down; build ...; up -d
FixRebuildServices == \E status \in {0} \cup FailureStatuses :
  RunFix("fix_rebuild_services", status)

\* docker-compose down -v; build --no-cache; up -d
FixCompleteReset == \E status \in {0} \cup FailureStatuses :
  RunFix("fix_complete_reset", status)

\* The final verification: none of its commands can end the script; main
\* returns and the script ends with status 0.
FinalVerification ==
  /\ fcPc = "final"
  /\ FixExit(0, "end")
  /\ UNCHANGED << fcFixes, fcTrace, chatVars, appVars, groupVars, statusVars, startVars >>

InitFix ==
  /\ InstanceInit
  /\ StatusIdle
  /\ StartIdle
  /\ gList = <<>>
  /\ gIdx = 0
  /\ gAcc = <<>>
  /\ gStatus = "done"
  /\ fcPc = "check_docker"
  /\ fcFixes = 0
  /\ fcTrace = <<>>
  /\ fcExit = <<>>

NextFix ==
  \/ CheckDocker
  \/ CheckComposeFile
  \/ CheckEnvironment
  \/ FixPortConflicts
  \/ CheckServices
  \/ TestApi
  \/ FixRestartServices
  \/ FixRebuildServices
  \/ FixCompleteReset
  \/ FinalVerification

\* One run of fix-chat.sh.
SpecFix == InitFix /\ [][NextFix]_vars

\* ---------------------------------------------------------------- start.sh
\* local max_attempts=60
max_attempts == 60

\* Arguments given to start.sh: the options of parse_args and an unknown one.
Options == {"-m", "--demo", "-s", "-h", "--help", "--bogus"}

ArgLists == UNION { [1..n -> Options] : n \in 0..MaxArgs }

\* cleanup: docker-compose down >/dev/null 2>&1 || true
Cleanup(compose) == Append(compose, "down")

\* The script exits with `status` while main runs `during`; bash then runs the
\* EXIT trap, if one is set.  `compose` is the commands run up to the exit.
StartExit(status, during, compose) ==
  /\ stExit' = << [status |-> status, during |-> during] >>
  /\ stPc' = "exited"
  /\ stCompose' = IF stTrap THEN Cleanup(compose) ELSE compose
  /\ stCleanups' = IF stTrap THEN stCleanups + 1 ELSE stCleanups

\* A statement of main completed; main goes on with `next`.
StartStep(done, next) ==
  /\ stSteps' = Append(stSteps, done)
  /\ stPc' = next
  /\ UNCHANGED << stExit, stCleanups >>

\* trap cleanup EXIT; print_banner
InstallTrap ==
  /\ stPc = "trap cleanup EXIT"
  /\ stTrap' = TRUE
  /\ StartStep("trap cleanup EXIT", "parse_args")
  /\ UNCHANGED << stArgs, MINIMAL_MODE, DEMO_MODE, SKIP_CHECKS, attempt, arithErrexit,
                  stCompose, stProbes, stReady, stPrinted,
                  chatVars, appVars, groupVars, statusVars, fixVars >>

\* parse_args: one turn of its while loop, the case on $1.
ParseArg ==
  /\ stPc = "parse_args"
  /\ stArgs # <<>>
  /\ LET arg == Head(stArgs)
     IN /\ MINIMAL_MODE' = IF arg \in {"-m", "--minimal"} THEN TRUE ELSE MINIMAL_MODE
        /\ DEMO_MODE' = IF arg \in {"-d", "--demo"} THEN TRUE ELSE DEMO_MODE
        /\ SKIP_CHECKS' = IF arg \in {"-s", "--skip-checks"} THEN TRUE ELSE SKIP_CHECKS
        /\ IF arg \in {"-m", "--minimal", "-d", "--demo", "-s", "--skip-checks"}
           THEN /\ stArgs' = Tail(stArgs)
                /\ UNCHANGED << stPc, stExit, stCompose, stCleanups, stPrinted >>
           ELSE /\ stPrinted' = stPrinted \cup {"help"}
                /\ StartExit(IF arg \in {"-h", "--help"} THEN 0 ELSE 1, "parse_args",
                             stCompose)
                /\ UNCHANGED stArgs
  /\ UNCHANGED << stTrap, attempt, arithErrexit, stProbes, stReady, stSteps,
                  chatVars, appVars, groupVars, statusVars, fixVars >>

\* parse_args returns when no argument is left; main prints the configuration.
ParseArgsDone ==
  /\ stPc = "parse_args"
  /\ stArgs = <<>>
  /\ StartStep("parse_args", "check_prerequisites")
  /\ UNCHANGED << stArgs, MINIMAL_MODE, DEMO_MODE, SKIP_CHECKS, stTrap, attempt,
                  arithErrexit, stCompose, stProbes, stReady, stPrinted,
                  chatVars, appVars, groupVars, statusVars, fixVars >>

\* A statement of main that runs no docker-compose command and either
\* completes or ends the script with status 1.
PlainStep(name, ok, next) ==
  /\ stPc = name
  /\ IF ok
     THEN StartStep(name, next) /\ UNCHANGED stCompose
     ELSE StartExit(1, name, stCompose) /\ UNCHANGED stSteps
  /\ UNCHANGED << stArgs, MINIMAL_MODE, DEMO_MODE, SKIP_CHECKS, stTrap, attempt,
                  arithErrexit, stProbes, stReady, stPrinted,
                  chatVars, appVars, groupVars, statusVars, fixVars >>

\* check_prerequisites: return 0 at once with SKIP_CHECKS; else exit 1 when
\* docker or docker-compose is missing or Docker is not running.
CheckPrerequisites == \E ok \in BOOLEAN :
  PlainStep("check_prerequisites", SKIP_CHECKS \/ ok, "setup_environment")

\* setup_environment: exit 1 without .env and .env.example; a failing cp, read
\* or sed ends the script under set -e.
SetupEnvironment == \E ok \in BOOLEAN :
  PlainStep("setup_environment", ok, "start_services")

\* A statement of main that runs the docker-compose commands `cmds` in order;
\* the first `ran` of them are run, and all but the last of these succeed.
ComposeStep(name, cmds, ran, status, next) ==
  /\ stPc = name
  /\ IF ran = Len(cmds) /\ status = 0
     THEN StartStep(name, next) /\ stCompose' = stCompose \o cmds
     ELSE StartExit(status, name, stCompose \o SubSeq(cmds, 1, ran)) /\ UNCHANGED stSteps
  /\ UNCHANGED << stArgs, MINIMAL_MODE, DEMO_MODE, SKIP_CHECKS, stTrap, attempt,
                  arithErrexit, stProbes, stReady, stPrinted,
                  chatVars, appVars, groupVars, statusVars, fixVars >>

\* start_services: docker-compose ... build --parallel, then ... up -d.
StartServices == \E ran \in 1..2 : \E status \in {0} \cup FailureStatuses :
  /\ ran = 1 => status # 0
  /\ ComposeStep("start_services", <<"build", "up">>, ran, status, "wait_for_services")

\* ((attempt++)) as a command: its status is 1 when the value of the
\* expression, the old value of attempt, is 0; set -e then ends the script
\* where bash applies it to (( )) commands.
IncrementFails == arithErrexit /\ attempt = 0

\* wait_for_services: one turn of its while loop.
WaitProbe == \E healthy \in BOOLEAN :
  /\ stPc = "wait_for_services"
  /\ attempt < max_attempts
  /\ stProbes' = stProbes + 1
  /\ IF healthy
     THEN /\ stReady' = TRUE
          /\ stPc' = "wait_for_services: end"
          /\ UNCHANGED << attempt, stExit, stCompose, stCleanups >>
     ELSE /\ UNCHANGED stReady
          /\ IF IncrementFails
             THEN StartExit(1, "wait_for_services", stCompose) /\ UNCHANGED attempt
             ELSE /\ attempt' = attempt + 1
                  /\ UNCHANGED << stPc, stExit, stCompose, stCleanups >>
  /\ UNCHANGED << stArgs, MINIMAL_MODE, DEMO_MODE, SKIP_CHECKS, stTrap, arithErrexit,
                  stPrinted, stSteps,
                  chatVars, appVars, groupVars, statusVars, fixVars >>

\* wait_for_services: the while condition is false after max_attempts failures.
WaitGiveUp ==
  /\ stPc = "wait_for_services"
  /\ ~(attempt < max_attempts)
  /\ stPc' = "wait_for_services: end"
  /\ UNCHANGED << stArgs, MINIMAL_MODE, DEMO_MODE, SKIP_CHECKS, stTrap, attempt,
                  arithErrexit, stCompose, stProbes, stReady, stPrinted, stSteps,
                  stCleanups, stExit,
                  chatVars, appVars, groupVars, statusVars, fixVars >>

\* wait_for_services after its loop: the warning if attempt = max_attempts,
\* else the success message; the function returns.
WaitEnd ==
  /\ stPc = "wait_for_services: end"
  /\ stPrinted' = IF attempt = max_attempts THEN stPrinted \cup {"not ready"} ELSE stPrinted
  /\ StartStep("wait_for_services", "generate_demo_data")
  /\ UNCHANGED << stArgs, MINIMAL_MODE, DEMO_MODE, SKIP_CHECKS, stTrap, attempt,
                  arithErrexit, stCompose, stProbes, stReady,
                  chatVars, appVars, groupVars, statusVars, fixVars >>

\* generate_demo_data: every curl is followed by || true.
GenerateDemoData == PlainStep("generate_demo_data", TRUE, "check_status")

\* check_status: docker-compose ps, then the health checks inside ifs.
CheckStatus == \E status \in {0} \cup FailureStatuses :
  ComposeStep("check_status", <<"ps">>, 1, status, "print_access_info")

\* print_access_info
PrintAccessInfo == PlainStep("print_access_info", TRUE, "trap - EXIT")

\* Faulty variant: main ends without trap - EXIT.
TrapAfterMain_Kept == stTrap

\* trap - EXIT: whether cleanup is still the EXIT trap afterwards.
TrapAfterMain == FALSE

\* trap - EXIT, the last statement of main.
RemoveTrap ==
  /\ stPc = "trap - EXIT"
  /\ stTrap' = TrapAfterMain
  /\ StartStep("trap - EXIT", "end")
  /\ UNCHANGED << stArgs, MINIMAL_MODE, DEMO_MODE, SKIP_CHECKS, attempt, arithErrexit,
                  stCompose, stProbes, stReady, stPrinted,
                  chatVars, appVars, groupVars, statusVars, fixVars >>

\* main returns and the script ends with the status of its last command.
ScriptEnd ==
  /\ stPc = "end"
  /\ StartExit(0, "end", stCompose)
  /\ UNCHANGED << stArgs, MINIMAL_MODE, DEMO_MODE, SKIP_CHECKS, stTrap, attempt,
                  arithErrexit, stProbes, stReady, stPrinted, stSteps,
                  chatVars, appVars, groupVars, statusVars, fixVars >>

\* start.sh is called with some arguments, by one or the other kind of bash.
InitStart ==
  /\ InstanceInit
  /\ StatusIdle
  /\ FixIdle
  /\ gList = <<>>
  /\ gIdx = 0
  /\ gAcc = <<>>
  /\ gStatus = "done"
  /\ stPc = "trap cleanup EXIT"
  /\ stArgs \in ArgLists
  /\ MINIMAL_MODE = FALSE
  /\ DEMO_MODE = FALSE
  /\ SKIP_CHECKS = FALSE
  /\ stTrap = FALSE
  /\ attempt = 0
  /\ arithErrexit \in BOOLEAN
  /\ stCompose = <<>>
  /\ stProbes = 0
  /\ stReady = FALSE
  /\ stPrinted = {}
  /\ stSteps = <<>>
  /\ stCleanups = 0
  /\ stExit = <<>>

NextStart ==
  \/ InstallTrap
  \/ ParseArg
  \/ ParseArgsDone
  \/ CheckPrerequisites
  \/ SetupEnvironment
  \/ StartServices
  \/ WaitProbe
  \/ WaitGiveUp
  \/ WaitEnd
  \/ GenerateDemoData
  \/ CheckStatus
  \/ PrintAccessInfo
  \/ RemoveTrap
  \/ ScriptEnd

\* One run of start.sh.
SpecStart == InitStart /\ [][NextStart]_vars

\* ================================================================== claims
SendOps == {"enter", "button", "card", "chip"}

Last(q) == q[Len(q)]

\* q1 is q0 followed by exactly one more element.
GrowsByOne(q0, q1) ==
  Len(q1) = Len(q0) + 1 /\ SubSeq(q1, 1, Len(q0)) = q0

Types(log) == [i \in DOMAIN log |-> log[i].type]

RECURSIVE UserContents(_)
UserContents(log) ==
  IF log = <<>> THEN <<>>
  ELSE IF Head(log).type = "user"
       THEN <<Head(log).content>> \o UserContents(Tail(log))
       ELSE UserContents(Tail(log))

\* C1: the Message Log is append-only.  Every step either leaves the log as it
\* is or yields the old log followed by one new message; so the log of an
\* earlier state is a prefix of the log of every later state, and no entry is
\* edited, reordered or removed.
C1_AppendOnly ==
  [][messages' = messages \/ GrowsByOne(messages, messages')]_vars

\* C1 witness: a log holding a user, an assistant and an error message.
C1_Witness ==
  /\ Len(messages) = 3
  /\ {messages[i].type : i \in DOMAIN messages} = {"user", "assistant", "error"}

\* C2: the order of the log is the order in which the events were handled:
\* the k-th entry is the entry of the k-th handled event among the accepted
\* submits, the responses and the errors.
C2_LogOrderIsArrivalOrder ==
  /\ Len(messages) = Len(arrivals)
  /\ \A k \in DOMAIN messages :
       /\ messages[k].type = arrivals[k].type
       /\ messages[k].content = arrivals[k].content

\* C2 witness: submits interleaved with an inbound event.
C2_Witness == Types(messages) = <<"user", "assistant", "user">>

\* C3: a submit of an empty or white-space-only text, by any UI element and in
\* any connection state, appends nothing to the log and emits no event.
C3_BlankSubmitIgnored ==
  [][(lastOp'.op \in SendOps /\ ~HasVisibleChar(lastOp'.text))
       => (messages' = messages /\ emitted' = emitted)]_vars

\* C3 witness: a white-space-only suggestion chip was clicked while connected.
C3_Witness ==
  /\ lastOp.op = "chip"
  /\ lastOp.text # <<>>
  /\ ~HasVisibleChar(lastOp.text)
  /\ isConnected
  /\ emitted = <<>>

\* C4: a submit made while the channel is disconnected emits no event and
\* leaves the log as it is.
C4_DisconnectedSubmitIgnored ==
  [][(lastOp'.op \in SendOps /\ ~isConnected)
       => (messages' = messages /\ emitted' = emitted)]_vars

\* C4 witness: after a disconnect, a quick query with visible text was clicked.
C4_Witness ==
  /\ lastOp.op = "card"
  /\ HasVisibleChar(lastOp.text)
  /\ ~isConnected
  /\ messages # <<>>
  /\ Len(emitted) = 0

\* C5 as stated: after N calls of sendMessage made while connected the log holds
\* at least N user entries.
C5_AtLeastOneEntryPerSubmit ==
  Len(UserContents(messages)) >= nConnSubmits

\* C5 as amended: the user entries of the log are the texts with a visible
\* character submitted while connected, in submission order, with the
\* submitted text as content (so N such submits give at least N user entries).
C5_UserEntriesAreNonBlankSubmits ==
  /\ UserContents(messages) = connTexts
  /\ Len(UserContents(messages)) >= Len(connTexts)

\* C5 witness: two different texts were submitted while connected, one with
\* leading white space.
C5_Witness ==
  /\ Len(connTexts) >= 2
  /\ connTexts[1] # connTexts[2]
  /\ \E k \in DOMAIN connTexts : connTexts[k][1] \in WhiteSpace

\* C6: isLoading becomes true by an accepted submit (visible text, connected)
\* and only by one; it becomes false by a response or error event and only by
\* one; connect, disconnect and rejected submits leave it as it is.
C6_PendingExchangeTransitions ==
  [][/\ (isLoading' /\ ~isLoading)
          => (lastOp'.op \in SendOps /\ HasVisibleChar(lastOp'.text) /\ isConnected)
     /\ (~isLoading' /\ isLoading) => lastOp'.op \in {"response", "error"}
     /\ (lastOp'.op \in SendOps /\ HasVisibleChar(lastOp'.text) /\ isConnected)
          => isLoading'
     /\ lastOp'.op \in {"response", "error"} => ~isLoading'
     /\ lastOp'.op \in {"connect", "disconnect"} => isLoading' = isLoading]_vars

\* C6 witness: the channel dropped while a response was awaited.
C6_Witness ==
  /\ lastOp.op = "disconnect"
  /\ isLoading
  /\ Len(emitted) = 1

\* C7: a submit of visible text made while connected and while isLoading is true
\* appends a user entry with that text and emits a 'message' event with it.
C7_SubmitWhileAwaiting ==
  [][(lastOp'.op \in SendOps /\ HasVisibleChar(lastOp'.text) /\ isConnected /\ isLoading)
       => /\ GrowsByOne(messages, messages')
          /\ Last(messages').type = "user"
          /\ Last(messages').content = lastOp'.text
          /\ GrowsByOne(emitted, emitted')
          /\ Last(emitted').message = lastOp'.text
          /\ isLoading']_vars

\* C7 witness: three sends outstanding at once.
C7_Witness ==
  /\ Types(messages) = <<"user", "user", "user">>
  /\ Len(emitted) = 3
  /\ isLoading

\* C8: a 'response' event appends exactly one entry, of kind assistant, with
\* the payload's response, metadata and suggestions.
C8_ResponseAppendsAssistant ==
  [][lastOp'.op = "response"
       => /\ GrowsByOne(messages, messages')
          /\ Last(messages').type = "assistant"
          /\ Last(messages').content = lastOp'.data[1].response
          /\ Last(messages').metadata = lastOp'.data[1].metadata
          /\ Last(messages').suggestions = lastOp'.data[1].suggestions]_vars

\* C8 witness: a response with suggestions arrived with no request outstanding.
C8_Witness ==
  /\ lastOp.op = "response"
  /\ emitted = <<>>
  /\ Last(messages).suggestions # <<>>

\* C9: an 'error' event appends exactly one entry, of kind error, with content
\* "Error: " followed by the payload's error; the connection state and the
\* session identifier are unchanged and isLoading is false afterwards.
C9_ErrorAppendsErrorEntry ==
  [][lastOp'.op = "error"
       => /\ GrowsByOne(messages, messages')
          /\ Last(messages').type = "error"
          /\ Last(messages').content
               = <<"E", "r", "r", "o", "r", ":", " ">> \o lastOp'.data[1].error
          /\ isConnected' = isConnected
          /\ sessionId' = sessionId
          /\ ~isLoading']_vars

\* C9 witness: an error answered a send.
C9_Witness ==
  /\ lastOp.op = "error"
  /\ Len(messages) >= 2
  /\ messages[Len(messages) - 1].type = "user"
  /\ ~isLoading

\* C10: no two entries of the log have the same id.
C10_UniqueIds ==
  \A i, j \in DOMAIN messages : i # j => messages[i].id # messages[j].id

\* ---------------------------------------------------------------- grouping
\* Category strings, as sequences of characters: two ordinary names, two that
\* look like non-negative integers, and one that names a property every object
\* inherits.
GroupCategories ==
  { <<"p">>, <<"m">>, <<"2">>, <<"1", "0">>,
    <<"c", "o", "n", "s", "t", "r", "u", "c", "t", "o", "r">> }

\* The fetched lists: every list of at most MaxQueries queries over the
\* categories; the query text tells the queries apart.
GroupInputs ==
  UNION { { [i \in 1..n |-> [query |-> <<"Q", i>>, category |-> c[i], description |-> "d"]]
            : c \in [1..n -> GroupCategories] } : n \in 0..MaxQueries }

DigitValue ==
  ("0" :> 0) @@ ("1" :> 1) @@ ("2" :> 2) @@ ("3" :> 3) @@ ("4" :> 4) @@
  ("5" :> 5) @@ ("6" :> 6) @@ ("7" :> 7) @@ ("8" :> 8) @@ ("9" :> 9)

RECURSIVE NumericValue(_)
NumericValue(k) ==
  IF k = <<>> THEN 0
  ELSE 10 * NumericValue(SubSeq(k, 1, Len(k) - 1)) + DigitValue[k[Len(k)]]

\* A property key that is an array index: the canonical decimal form of an
\* integer below 2^32 - 1, which every digit string of up to 9 digits is.
\* Object.entries lists these keys first, in ascending numeric order.
IsArrayIndex(k) ==
  /\ Len(k) \in 1..9
  /\ \A i \in DOMAIN k : k[i] \in DOMAIN DigitValue
  /\ Len(k) = 1 \/ k[1] # "0"

\* Names every object literal {} inherits from Object.prototype (among them).
ObjectPrototypeKeys ==
  { <<"c", "o", "n", "s", "t", "r", "u", "c", "t", "o", "r">>,
    <<"t", "o", "S", "t", "r", "i", "n", "g">> }

\* The position of the own property k of the object, or 0.
OwnIndex(obj, k) ==
  IF \E i \in DOMAIN obj : obj[i].key = k
  THEN CHOOSE i \in DOMAIN obj : obj[i].key = k
  ELSE 0

\* The callback of quickQueries.reduce: (acc, query) => { ... return acc; }.
\* acc[query.category] reads an inherited property where there is no own one;
\* an inherited value is truthy and has no push, so the call throws.
Reducer(acc, query) ==
  LET k == query.category
      own == OwnIndex(acc, k)
  IN IF own # 0
     THEN [threw |-> FALSE,
           acc |-> [acc EXCEPT ![own].value = Append(@, query)]]
     ELSE IF k \in ObjectPrototypeKeys
          THEN [threw |-> TRUE, acc |-> acc]
          ELSE [threw |-> FALSE,
                acc |-> Append(acc, [key |-> k, value |-> <<query>>])]

RECURSIVE AscendingIndexKeys(_, _)
AscendingIndexKeys(obj, S) ==
  IF S = {} THEN <<>>
  ELSE LET m == CHOOSE i \in S :
                  \A j \in S : NumericValue(obj[i].key) <= NumericValue(obj[j].key)
       IN <<obj[m]>> \o AscendingIndexKeys(obj, S \ {m})

IsIndexProperty(p) == IsArrayIndex(p.key)

IsNameProperty(p) == ~IsArrayIndex(p.key)

\* Object.entries(quickQueryCategories): array-index keys in ascending numeric
\* order, then the other keys in insertion order.
ObjectEntries(obj) ==
  AscendingIndexKeys(obj, {i \in DOMAIN obj : IsIndexProperty(obj[i])})
    \o SelectSeq(obj, IsNameProperty)

\* One call of the reducer.
ReduceStep ==
  /\ gStatus = "running"
  /\ gIdx < Len(gList)
  /\ LET r == Reducer(gAcc, gList[gIdx + 1])
     IN IF r.threw
        THEN gStatus' = "threw" /\ UNCHANGED << gAcc, gIdx >>
        ELSE gAcc' = r.acc /\ gIdx' = gIdx + 1 /\ UNCHANGED gStatus
  /\ UNCHANGED << gList, chatVars, appVars, statusVars, fixVars, startVars >>

\* reduce returns the accumulator; the panel renders its entries.
ReduceDone ==
  /\ gStatus = "running"
  /\ gIdx = Len(gList)
  /\ gStatus' = "done"
  /\ UNCHANGED << gList, gIdx, gAcc, chatVars, appVars, statusVars, fixVars, startVars >>

InitGroup ==
  /\ InstanceInit
  /\ StatusIdle
  /\ FixIdle
  /\ StartIdle
  /\ gList \in GroupInputs
  /\ gIdx = 0
  /\ gAcc = <<>>
  /\ gStatus = "running"

NextGroup == ReduceStep \/ ReduceDone

\* The grouping of one fetched list, one reducer call per step.
SpecGroup == InitGroup /\ [][NextGroup]_vars

\* C11: every 'message' event the client emits carries one and the same
\* session_id, also across leaving the chat view and returning to it.
C11_OneSessionId == Cardinality(sentSessionIds) <= 1

\* The four values sendMessage can change, after a step.
SendOutcome ==
  [messages |-> messages', isLoading |-> isLoading', emitted |-> emitted',
   inputMessage |-> inputMessage']

\* C12 as stated: from any state, a click on a chip or card with text q leaves the
\* log, isLoading, the input field and the emitted events as manual entry of q
\* from that state does.
C12_ClickEqualsManualEntry ==
  [][lastOp'.op \in {"card", "chip"}
       => SendOutcome = ManualEntryResult(lastOp'.text)]_vars

\* C12 as amended: a click on a chip or card with text q calls sendMessage(q):
\* the log, isLoading and the emitted events are those of sendMessage() with q
\* in the text field, in every state (also while the text field is disabled);
\* an accepted click clears the input field and a rejected one leaves it as it
\* was; where the text field is enabled and q is accepted, all four values are
\* those of manual entry of q.
C12_ClickCallsSendMessage ==
  [][lastOp'.op \in {"card", "chip"}
       => LET q == lastOp'.text
              r == SendMessageResult(q)
          IN /\ messages' = r.messages
             /\ isLoading' = r.isLoading
             /\ emitted' = r.emitted
             /\ inputMessage' = IF HasVisibleChar(q) /\ isConnected
                                THEN <<>> ELSE inputMessage
             /\ (~TextFieldDisabled /\ HasVisibleChar(q))
                  => SendOutcome = ManualEntryResult(q)]_vars

\* C12 witness: a suggestion chip was clicked and sent while a request was
\* outstanding, with the text field disabled.
C12_Witness ==
  /\ lastOp.op = "chip"
  /\ Types(messages) = <<"assistant", "user", "user">>
  /\ Len(emitted) = 2

\* C15: a failed quick-query load leaves the catalog as it was (empty, as no load
\* of the instance succeeded before) and changes neither the log, isConnected,
\* isLoading nor the session identifier.
C15_FailedLoadChangesNothing ==
  [][lastOp'.op = "loadFailed"
       => /\ quickQueries' = quickQueries
          /\ quickQueries' = <<>>
          /\ messages' = messages
          /\ isConnected' = isConnected
          /\ isLoading' = isLoading
          /\ sessionId' = sessionId]_vars

\* C15 witness: the load failed while a request was outstanding.
C15_Witness ==
  /\ lastOp.op = "loadFailed"
  /\ isLoading
  /\ isConnected
  /\ messages # <<>>
  /\ quickQueries = <<>>

\* C16: one ChatInterface instance issues exactly one GET /quick-queries, at
\* its mount; no later event issues another.
C16_OneCatalogRequest == nGets = 1

\* C16 witness: connect, traffic and a disconnect happened after the load.
C16_Witness ==
  /\ lastOp.op = "disconnect"
  /\ Len(messages) = 3
  /\ qqFetch = "done"
  /\ nGets = 1

\* C18 as stated: after a disconnect event isConnected stays false: no connect
\* event follows on the channel the component opened.
C18_NoConnectAfterDisconnect ==
  [][lastConnEvent = "disconnect" => ~isConnected']_vars

\* C18 as amended: the component itself opens no further channel and starts no
\* reconnection (io() is called once per mount), and isConnected stays false
\* until a connect event; but the socket reconnects by itself, so a connect event
\* can follow a disconnect event on the same channel.
C18_ComponentOpensNoChannel ==
  [][/\ nSockets' = nSockets
     /\ (~isConnected /\ lastOp'.op # "connect") => ~isConnected']_vars

\* C18 witness: the socket reconnected after traffic, on the one channel.
C18_Witness ==
  /\ lastOp.op = "connect"
  /\ emitted # <<>>
  /\ isConnected
  /\ nSockets = 1

\* C19: isConnected is true exactly when the last connect/disconnect event
\* handled was a connect (false before any); the alert and the 'Disconnected'
\* chip are shown exactly when it is false.
C19_ConnectionIndicators ==
  /\ isConnected <=> lastConnEvent = "connect"
  /\ ConnectionAlertShown <=> lastConnEvent # "connect"
  /\ (ConnectionChipLabel = "Disconnected") <=> lastConnEvent # "connect"

\* C19 witness: after a disconnect, other events were handled and the alert is
\* still shown.
C19_Witness ==
  /\ lastConnEvent = "disconnect"
  /\ lastOp.op = "card"
  /\ messages # <<>>
  /\ ConnectionAlertShown
  /\ ConnectionChipLabel = "Disconnected"

\* A step of the application that issues a GET /quick-queries for the mounted
\* ChatInterface instance.
ReloadStep == NextApp /\ nGets' > nGets

\* C17: after a failed quick-query load the running client offers the user an
\* action that loads the catalog again.
C17_ReloadAvailable ==
  (view = "chat" /\ qqFetch = "failed") => ENABLED ReloadStep

\* C20: after a ChatInterface instance is torn down none of its handlers or
\* continuations updates its state.
C20_NoUpdateAfterUnmount == ~staleUpdate

\* The queries of the fetched list with category k, in list order.
OfCategory(k) ==
  LET Is(q) == q.category = k IN SelectSeq(gList, Is)

RECURSIVE FirstSeen(_, _)
\* The distinct categories of a list in order of first occurrence.
FirstSeen(list, seen) ==
  IF list = <<>> THEN <<>>
  ELSE IF Head(list).category \in seen THEN FirstSeen(Tail(list), seen)
       ELSE <<Head(list).category>>
              \o FirstSeen(Tail(list), seen \cup {Head(list).category})

\* C13: the grouping is a stable partition of the fetched list: it yields a
\* result, every query is in exactly one bucket, the one keyed by its own
\* category, and every bucket holds exactly the queries of its category in
\* their order in the list.
C13_StablePartition ==
  /\ gStatus # "threw"
  /\ gStatus = "done" =>
       /\ \A i \in DOMAIN gList :
            Cardinality({b \in DOMAIN gAcc : gAcc[b].key = gList[i].category}) = 1
       /\ \A b \in DOMAIN gAcc : gAcc[b].value = OfCategory(gAcc[b].key)

\* C14: the keys rendered from the grouped result are the distinct categories
\* in order of first occurrence in the fetched list.
C14_FirstSeenOrder ==
  gStatus = "done" =>
    [b \in DOMAIN gAcc |-> ObjectEntries(gAcc)[b].key] = FirstSeen(gList, {})

\* C22: user entries and emitted events are in one-to-one correspondence: as
\* many 'message' events were emitted as the log has user entries, the k-th
\* event carries the content of the k-th user entry (the submitted text,
\* untrimmed), and every event has include_metrics, include_logs and
\* include_traces true and time_range '1h'.
C22_EventsMatchUserEntries ==
  /\ Len(emitted) = Len(UserContents(messages))
  /\ \A k \in DOMAIN emitted :
       /\ emitted[k].message = UserContents(messages)[k]
       /\ emitted[k].include_metrics = TRUE
       /\ emitted[k].include_logs = TRUE
       /\ emitted[k].include_traces = TRUE
       /\ emitted[k].time_range = "1h"

\* C22 witness: two events were emitted, the second for a text with leading
\* white space, with an inbound entry between the two user entries.
C22_Witness ==
  /\ Len(emitted) = 2
  /\ emitted[2].message[1] \in WhiteSpace
  /\ Len(messages) = 3
  /\ messages[2].type # "user"

RECURSIVE Outstanding(_)
\* The accepted sends of a handling history that no response or error event
\* has answered yet: answers are matched to sends by arrival order.
Outstanding(hist) ==
  IF hist = <<>> THEN 0
  ELSE LET before == Outstanding(SubSeq(hist, 1, Len(hist) - 1))
       IN IF Last(hist).type = "user" THEN before + 1
          ELSE IF before > 0 THEN before - 1 ELSE 0

\* C23: isLoading is true if and only if at least one accepted send has not
\* yet been answered by a response or error event.
C23_LoadingIffOutstanding ==
  isLoading <=> Outstanding(arrivals) > 0

\* C24: a rejected submission (text without a visible character, or made while
\* disconnected) changes neither the Message Log, isLoading, the input-field
\* text, isConnected, the catalog nor the session id; and a submission that
\* changes the input-field text is an accepted one, which clears it.
C24_RejectedSubmitChangesNothing ==
  [][lastOp'.op \in SendOps =>
       /\ (~HasVisibleChar(lastOp'.text) \/ ~isConnected) =>
            /\ messages' = messages
            /\ isLoading' = isLoading
            /\ inputMessage' = inputMessage
            /\ isConnected' = isConnected
            /\ quickQueries' = quickQueries
            /\ sessionId' = sessionId
       /\ inputMessage' # inputMessage =>
            /\ HasVisibleChar(lastOp'.text)
            /\ isConnected
            /\ inputMessage' = <<>>]_vars

\* C24 witness: a quick-query card was clicked while disconnected and while the
\* input field held a typed text, which is still there.
C24_Witness ==
  /\ lastOp.op = "card"
  /\ ~isConnected
  /\ HasVisibleChar(inputMessage)
  /\ HasVisibleChar(lastOp.text)

\* C21: the periodic refresh is a scoped resource: one fetch is started at
\* mount and one per tick of the interval, and once the component is torn
\* down the interval is cleared and no further fetch is started.
C21_RefreshScoped ==
  [][/\ Len(fetches) = 1 + nTicks
     /\ Len(fetches') = 1 + nTicks'
     /\ ~ssMounted' => ~intervalOn'
     /\ ~ssMounted => Len(fetches') = Len(fetches)]_vars

\* C21 witness: the component was torn down after a tick, with a request
\* still pending, which then completed.
C21_Witness ==
  /\ ~ssMounted
  /\ nTicks >= 1
  /\ fetches[1].state = "pending"
  /\ ssLastOp.op = "fetchOk"

\* The successful request started last, or 0.
LastStartedOk ==
  LET ok == {i \in DOMAIN fetches : fetches[i].state = "ok"}
  IN IF ok = {} THEN 0 ELSE CHOOSE i \in ok : \A j \in ok : j <= i

\* C25: the status view never regresses: loading is true exactly while some
\* request is in flight, and once all requests have completed systemStatus is
\* the result of the most recently started successful one.
C25_NoStaleStatus ==
  ssMounted =>
    /\ loading <=> (\E i \in DOMAIN fetches : fetches[i].state = "pending")
    /\ ((\A i \in DOMAIN fetches : fetches[i].state # "pending") /\ LastStartedOk # 0)
         => systemStatus = fetches[LastStartedOk].data

\* C26: a completed fetch leaves the mounted component consistent: a success
\* sets systemStatus to the response and error to null, so that the table is
\* rendered; a failure sets error to 'Failed to fetch system status' and
\* leaves systemStatus as it was; in both cases loading is false afterwards.
C26_FetchCompletion ==
  [][ssMounted =>
       /\ ssLastOp'.op = "fetchOk" =>
            /\ systemStatus' = fetches'[ssLastOp'.id].data
            /\ systemStatus' # <<>>
            /\ error' = <<>>
            /\ ~loading'
            /\ StatusView' = "table"
       /\ ssLastOp'.op = "fetchFailed" =>
            /\ error' = <<"Failed to fetch system status">>
            /\ systemStatus' = systemStatus
            /\ ~loading'
            /\ StatusView' = "alert"]_vars

\* C26 witness: a success right after a failure; the error is cleared and
\* the table is rendered.
C26_Witness ==
  /\ ssMounted
  /\ Len(ssCompleted) >= 2
  /\ fetches[ssCompleted[Len(ssCompleted) - 1]].state = "failed"
  /\ fetches[Last(ssCompleted)].state = "ok"
  /\ StatusView = "table"

FixNames == {"fix_restart_services", "fix_rebuild_services", "fix_complete_reset"}

\* The fix functions called so far, in call order.
FixesRun == LET IsFix(e) == e.step \in FixNames
            IN [i \in DOMAIN SelectSeq(fcTrace, IsFix) |-> SelectSeq(fcTrace, IsFix)[i].step]

\* The fix `name` was called and the test_api called right after it failed.
TriedAndFailed(name) ==
  \E i \in DOMAIN fcTrace :
    /\ fcTrace[i].step = name
    /\ i < Len(fcTrace)
    /\ fcTrace[i + 1].step = "test_api"
    /\ fcTrace[i + 1].status # 0

\* The escalation: the fixes are called in the order restart, rebuild,
\* complete reset; each right after a failing test_api; nothing is called
\* after a test_api that succeeded; the complete reset only after restart and
\* rebuild were both tried and both followed by a failing test_api.
EscalationOrder ==
  /\ FixesRun = SubSeq(<<"fix_restart_services", "fix_rebuild_services",
                         "fix_complete_reset">>, 1, Len(FixesRun))
  /\ \A i \in DOMAIN fcTrace :
       /\ fcTrace[i].step \in FixNames =>
            i > 1 /\ fcTrace[i - 1].step = "test_api" /\ fcTrace[i - 1].status # 0
       /\ (fcTrace[i].step = "test_api" /\ fcTrace[i].status = 0) => i = Len(fcTrace)
  /\ (\E i \in DOMAIN fcTrace : fcTrace[i].step = "fix_complete_reset") =>
       TriedAndFailed("fix_restart_services") /\ TriedAndFailed("fix_rebuild_services")

\* C27 as stated: the escalation order, and the script exits with status 1
\* only after all three fixes were each followed by a failing test_api.
C27_EscalationAndExit ==
  /\ EscalationOrder
  /\ (fcExit # <<>> /\ fcExit[1].status = 1) =>
       \A name \in FixNames : TriedAndFailed(name)

\* C27 as amended: the escalation order, and the exit 1 of the ladder is
\* reached only after all three fixes were each followed by a failing
\* test_api; an exit with status 1 anywhere else is the exit of a failed
\* check made before the ladder or of a failed docker-compose command.
C27_EscalationAndLadderExit ==
  /\ EscalationOrder
  /\ fcExit # <<>> =>
       /\ fcExit[1].at = "ladder" =>
            fcExit[1].status = 1 /\ \A name \in FixNames : TriedAndFailed(name)
       /\ (fcExit[1].status = 1 /\ fcExit[1].at # "ladder") =>
            /\ ~(\A name \in FixNames : TriedAndFailed(name))
            /\ \/ fcTrace = <<>>
               \/ Last(fcTrace).step \in FixNames /\ Last(fcTrace).status = 1

\* C27 witness: all three fixes ran, each followed by a failing test_api, and
\* the script ended with the exit 1 of the ladder.
C27_Witness ==
  /\ fcExit # <<>>
  /\ fcExit[1].status = 1
  /\ Len(fcTrace) = 7
  /\ FixesRun = <<"fix_restart_services", "fix_rebuild_services", "fix_complete_reset">>
  /\ Last(fcTrace).step = "test_api"

\* The statement `name` of main completed.
Completed(name) == \E i \in DOMAIN stSteps : stSteps[i] = name

\* C28: wait_for_services makes at most 60 probes, leaves its loop at the
\* first successful probe, and returns normally in both outcomes: the script
\* never ends inside it, and when it returned after 60 failed probes the
\* warning was printed and main goes on with generate_demo_data.
C28_WaitReturnsNormally ==
  /\ stProbes <= 60
  /\ stReady => stPc # "wait_for_services"
  /\ stExit # <<>> => stExit[1].during # "wait_for_services"
  /\ (Completed("wait_for_services") /\ ~stReady) =>
       /\ stProbes = 60
       /\ "not ready" \in stPrinted
       /\ stPc = "generate_demo_data" \/ Completed("generate_demo_data")

\* C29: cleanup is the EXIT trap from the first statement of main to its
\* last: on a run where every statement of main completed cleanup never ran
\* and no docker-compose down was given, and whenever cleanup ran the script
\* had exited before the end of main.
C29_CleanupOnlyOnEarlyExit ==
  /\ (stExit # <<>> /\ Completed("trap - EXIT")) =>
       /\ stCleanups = 0
       /\ \A i \in DOMAIN stCompose : stCompose[i] # "down"
  /\ stCleanups > 0 =>
       /\ stExit # <<>>
       /\ stExit[1].during # "end"
       /\ ~Completed("print_access_info")
  /\ (stSteps # <<>> /\ stExit = <<>> /\ ~Completed("trap - EXIT")) => stTrap

\* C29 witness: a run in demo mode in which every statement of main completed
\* and the script ended with status 0, the services started and left running.
C29_Witness ==
  /\ stExit # <<>>
  /\ stExit[1].status = 0
  /\ DEMO_MODE
  /\ Completed("trap - EXIT")
  /\ stCompose = <<"build", "up", "ps">>

\* C30: a call with -h/--help or with an unknown option only prints the help
\* text and exits, with status 0 for help and 1 for an unknown option: no
\* docker-compose command is run.
C30_HelpRunsNoCompose ==
  "help" \in stPrinted =>
    /\ stExit # <<>>
    /\ stExit[1].status \in {0, 1}
    /\ stCompose = <<>>

====
